---------------------------- MODULE Spec2Model ----------------------------
(***************************************************************************)
(* Versioned follow graph of andreaolgiati/socialnetwork.                  *)
(*                                                                         *)
(* SocialNetwork (src/src/snlib.rs) keeps a version counter, one interval  *)
(* history per directed edge and two adjacency indexes.                    *)
(* SocialNetworkServer (src/src/server.rs) puts one SocialNetwork behind a *)
(* std::sync::Mutex and runs every RPC handler under that lock.            *)
(*                                                                         *)
(* The graph is the record `network`; every method of SocialNetwork is an  *)
(* operator from a graph (and arguments) to the graph after the call and   *)
(* the returned value.  Spec runs the methods one call at a time, as the   *)
(* unit tests do.                                                          *)
(***************************************************************************)
EXTENDS Integers, Sequences, FiniteSets, TLC

(***************************************************************************)
(* Bounds of the model.                                                    *)
(***************************************************************************)
\* the RPC handlers that run concurrently are 1..NumHandlers
NumHandlers == 2
\* commit is issued only while version < MaxVersion
MaxVersion == 3
\* u64 is scaled down to Width bits; u64::MAX is 2^Width - 1
Width == 3
\* in SpecQuery commit is issued only while version < MaxQueryVersion
MaxQueryVersion == 2

\* the user ids callers pass
Users == {1, 2}
Edges == Users \X Users
\* the ids get_followers and get_followees are asked for: the users and one
\* id that never acts
QueryUsers == Users \cup {3}
Handlers == 1..NumHandlers

Modulus == 2 ^ Width
\* src/src/snlib.rs:18  follow_end: u64::MAX
U64_MAX == Modulus - 1

\* versions a caller passes to is_following: past, current and future ones
QueryVersions == 0..(MaxVersion + 1)

VARIABLES
    network,    \* the SocialNetwork value: version, follow_intervals, follows, is_followed
    pre,        \* the SocialNetwork value at the start of the last direct call
    last,       \* the last direct call: method, arguments and returned value
    mutex,      \* SocialNetworkServer.network's lock: its holder, or 0
    poisoned,   \* the lock's poison flag: a holder panicked
    pc,         \* where each RPC handler stands
    req,        \* each handler's request
    loaded,     \* each handler's local copy of self.version in commit
    resp        \* each handler's response

lib_vars == <<network, pre, last>>
srv_vars == <<mutex, poisoned, pc, req, loaded, resp>>
vars == <<network, pre, last, mutex, poisoned, pc, req, loaded, resp>>

(***************************************************************************)
(* Values.                                                                 *)
(***************************************************************************)
\* Result<bool, String>, and a panic (expect / unwrap / assert!)
Ok(b) == [kind |-> "Ok", val |-> b, msg |-> ""]
Err(m) == [kind |-> "Err", val |-> FALSE, msg |-> m]
Panic(m) == [kind |-> "Panic", val |-> FALSE, msg |-> m]
NoResult == [kind |-> "None", val |-> FALSE, msg |-> ""]

\* Option<u64>
Some(w) == [is_some |-> TRUE, value |-> w]
None == [is_some |-> FALSE, value |-> 0]

\* HashMap: a function whose domain is the set of keys present
EmptyMap == [k \in {} |-> {}]
MapPut(m, k, v) == [x \in (DOMAIN m) \cup {k} |-> IF x = k THEN v ELSE m[x]]
\* HashMap<u64, HashSet<u64>>::get(k) with unwrap_or_default
SetAt(m, k) == IF k \in DOMAIN m THEN m[k] ELSE {}

\* FollowInterval::new
FollowInterval(follow_start) == [follow_start |-> follow_start, follow_end |-> U64_MAX]

\* fault: the end version is excluded from the interval
IsActiveStrictEnd(interval, version) ==
    version >= interval.follow_start /\ version < interval.follow_end

\* FollowInterval::is_active
is_active(interval, version) ==
    version >= interval.follow_start /\ version <= interval.follow_end

\* Vec::last
Last(s) == s[Len(s)]
SetLastEnd(s, e) == [s EXCEPT ![Len(s)].follow_end = e]

\* SocialNetwork::new
NewNetwork ==
    [version |-> 0, follow_intervals |-> EmptyMap, follows |-> EmptyMap,
     is_followed |-> EmptyMap]

(***************************************************************************)
(* SocialNetwork::follow, in the order of its statements.  Every operator  *)
(* takes the graph g and gives the graph after the statement; the last one *)
(* gives [g, ret].                                                         *)
(***************************************************************************)
\* self.follows.entry(follower_id).or_insert_with(HashSet::new).insert(followee_id)
FollowAddFollows(g, follower_id, followee_id) ==
    [g EXCEPT !.follows =
        MapPut(@, follower_id, SetAt(@, follower_id) \cup {followee_id})]

\* self.is_followed.entry(followee_id).or_insert_with(HashSet::new).insert(follower_id)
FollowAddIsFollowed(g, follower_id, followee_id) ==
    [g EXCEPT !.is_followed =
        MapPut(@, followee_id, SetAt(@, followee_id) \cup {follower_id})]

\* fault: the new interval starts at the next version
PushIntervalNextVersion(g, e) ==
    [g EXCEPT !.follow_intervals =
        MapPut(@, e, Append(IF e \in DOMAIN @ THEN @[e] ELSE <<>>,
                            FollowInterval(g.version + 1)))]

\* fault: the edge's entry is created and nothing is pushed
PushIntervalEntryOnly(g, e) ==
    [g EXCEPT !.follow_intervals = MapPut(@, e, IF e \in DOMAIN @ THEN @[e] ELSE <<>>)]

\* fault: the new interval replaces the edge's history
PushIntervalReplace(g, e) ==
    [g EXCEPT !.follow_intervals = MapPut(@, e, <<FollowInterval(g.version)>>)]

\* Vec::push of FollowInterval::new(self.version) on the edge's entry
PushInterval(g, e) ==
    [g EXCEPT !.follow_intervals =
        MapPut(@, e, Append(IF e \in DOMAIN @ THEN @[e] ELSE <<>>,
                            FollowInterval(g.version)))]

\* fault: no look at the last interval, every follow pushes
FollowAlwaysPush(g, follower_id, followee_id) ==
    [g |-> PushInterval(g, <<follower_id, followee_id>>), ret |-> Ok(TRUE)]

\* fault: the same-version branch returns without resetting follow_end
FollowReopenForgotten(g, follower_id, followee_id) ==
    LET e == <<follower_id, followee_id>>
        fi == g.follow_intervals
    IN  IF e \in DOMAIN fi /\ Len(fi[e]) > 0
             /\ (Last(fi[e]).follow_end = U64_MAX \/ Last(fi[e]).follow_end = g.version)
        THEN [g |-> g, ret |-> Ok(FALSE)]
        ELSE [g |-> PushInterval(g, e), ret |-> Ok(TRUE)]

\* fault: an already open edge is reported as a new follow
FollowOpenReturnsTrue(g, follower_id, followee_id) ==
    LET e == <<follower_id, followee_id>>
        fi == g.follow_intervals
    IN  IF e \in DOMAIN fi /\ Len(fi[e]) > 0
        THEN IF Last(fi[e]).follow_end = U64_MAX
             THEN [g |-> g, ret |-> Ok(TRUE)]
             ELSE IF Last(fi[e]).follow_end = g.version
             THEN [g |-> [g EXCEPT !.follow_intervals[e] = SetLastEnd(@, U64_MAX)],
                   ret |-> Ok(FALSE)]
             ELSE [g |-> PushInterval(g, e), ret |-> Ok(TRUE)]
        ELSE [g |-> PushInterval(g, e), ret |-> Ok(TRUE)]

\* fault: no same-version branch, a closed last interval always gets a successor
FollowNoReopen(g, follower_id, followee_id) ==
    LET e == <<follower_id, followee_id>>
        fi == g.follow_intervals
    IN  IF e \in DOMAIN fi /\ Len(fi[e]) > 0 /\ Last(fi[e]).follow_end = U64_MAX
        THEN [g |-> g, ret |-> Ok(FALSE)]
        ELSE [g |-> PushInterval(g, e), ret |-> Ok(TRUE)]

\* the if-let on the edge's history and the push after it
FollowUpdateIntervals(g, follower_id, followee_id) ==
    LET e == <<follower_id, followee_id>>
        fi == g.follow_intervals
    IN  IF e \in DOMAIN fi
        THEN IF Len(fi[e]) = 0
             THEN [g |-> g, ret |-> Panic("Follow intervals should not be empty")]
             ELSE IF Last(fi[e]).follow_end = U64_MAX
             THEN [g |-> g, ret |-> Ok(FALSE)]
             ELSE IF Last(fi[e]).follow_end = g.version
             THEN [g |-> [g EXCEPT !.follow_intervals[e] = SetLastEnd(@, U64_MAX)],
                   ret |-> Ok(FALSE)]
             ELSE [g |-> PushInterval(g, e), ret |-> Ok(TRUE)]
        ELSE [g |-> PushInterval(g, e), ret |-> Ok(TRUE)]

\* fault: no check that follower and followee differ
FollowNoSelfCheck(g, follower_id, followee_id) ==
    FollowUpdateIntervals(
        FollowAddIsFollowed(FollowAddFollows(g, follower_id, followee_id),
                            follower_id, followee_id),
        follower_id, followee_id)

follow(g, follower_id, followee_id) ==
    IF follower_id = followee_id
    THEN [g |-> g, ret |-> Err("Users cannot follow themselves")]
    ELSE FollowUpdateIntervals(
            FollowAddIsFollowed(FollowAddFollows(g, follower_id, followee_id),
                                follower_id, followee_id),
            follower_id, followee_id)

(***************************************************************************)
(* SocialNetwork::unfollow.                                                *)
(***************************************************************************)
\* fault: no check that the followee is in the follower's set
UnfollowNoContainsCheck(g, follower_id, followee_id) ==
    IF follower_id = followee_id
    THEN Err("Users cannot unfollow themselves")
    ELSE IF follower_id \notin DOMAIN g.follows
    THEN Ok(FALSE)
    ELSE NoResult

\* the three early returns; NoResult when the call goes on
UnfollowEarlyReturn(g, follower_id, followee_id) ==
    IF follower_id = followee_id
    THEN Err("Users cannot unfollow themselves")
    ELSE IF follower_id \notin DOMAIN g.follows
    THEN Ok(FALSE)
    ELSE IF followee_id \notin g.follows[follower_id]
    THEN Ok(FALSE)
    ELSE NoResult

\* fault: the followee stays in the follower's set
UnfollowKeepFollows(g, follower_id, followee_id) == g

\* self.follows.get_mut(&follower_id).unwrap().remove(&followee_id)
UnfollowRemoveFollows(g, follower_id, followee_id) ==
    [g EXCEPT !.follows[follower_id] = @ \ {followee_id}]

\* self.is_followed.get_mut(&followee_id).unwrap(): None panics
UnfollowIsFollowedPresent(g, followee_id) == followee_id \in DOMAIN g.is_followed

\* fault: the follower stays in the followee's set
UnfollowKeepIsFollowed(g, follower_id, followee_id) == g

\* ... .remove(&follower_id)
UnfollowRemoveIsFollowed(g, follower_id, followee_id) ==
    [g EXCEPT !.is_followed[followee_id] = @ \ {follower_id}]

\* the match on the edge's history
UnfollowUpdateIntervals(g, follower_id, followee_id) ==
    LET e == <<follower_id, followee_id>>
        fi == g.follow_intervals
    IN  IF e \notin DOMAIN fi
        THEN [g |-> g, ret |-> Ok(FALSE)]
        ELSE IF Len(fi[e]) = 0
        THEN [g |-> g, ret |-> Panic("assertion failed: follow_intervals is empty")]
        ELSE IF Last(fi[e]).follow_end = U64_MAX
        THEN [g |-> [g EXCEPT !.follow_intervals[e] = SetLastEnd(@, g.version)],
              ret |-> Ok(TRUE)]
        ELSE IF Last(fi[e]).follow_end = g.version
        THEN [g |-> [g EXCEPT !.follow_intervals[e] = SetLastEnd(@, U64_MAX)],
              ret |-> Ok(TRUE)]
        ELSE [g |-> g, ret |-> Err("Invalid follow interval")]

unfollow(g, follower_id, followee_id) ==
    LET early == UnfollowEarlyReturn(g, follower_id, followee_id)
        g1 == UnfollowRemoveFollows(g, follower_id, followee_id)
    IN  IF early.kind # "None"
        THEN [g |-> g, ret |-> early]
        ELSE IF ~UnfollowIsFollowedPresent(g1, followee_id)
        THEN [g |-> g1, ret |-> Panic("called Option::unwrap() on a None value")]
        ELSE UnfollowUpdateIntervals(
                UnfollowRemoveIsFollowed(g1, follower_id, followee_id),
                follower_id, followee_id)

(***************************************************************************)
(* The read methods and commit.                                            *)
(***************************************************************************)
\* fault: no early return for a version beyond the current one
IsFollowingNoFutureCheck(g, follower_id, followee_id, version) ==
    LET v == IF version.is_some THEN version.value ELSE g.version
        e == <<follower_id, followee_id>>
    IN  IF e \in DOMAIN g.follow_intervals
        THEN \E i \in 1..Len(g.follow_intervals[e]) :
                is_active(g.follow_intervals[e][i], v)
        ELSE FALSE

\* fault: only the last interval of the history is looked at
IsFollowingLastOnly(g, follower_id, followee_id, version) ==
    LET v == IF version.is_some THEN version.value ELSE g.version
        e == <<follower_id, followee_id>>
    IN  IF v > g.version
        THEN FALSE
        ELSE IF e \in DOMAIN g.follow_intervals /\ Len(g.follow_intervals[e]) > 0
        THEN is_active(Last(g.follow_intervals[e]), v)
        ELSE FALSE

is_following(g, follower_id, followee_id, version) ==
    LET v == IF version.is_some THEN version.value ELSE g.version
        e == <<follower_id, followee_id>>
    IN  IF v > g.version
        THEN FALSE
        ELSE IF e \in DOMAIN g.follow_intervals
        THEN \E i \in 1..Len(g.follow_intervals[e]) :
                is_active(g.follow_intervals[e][i], v)
        ELSE FALSE

\* fault: the counter advances by two
IncrementTwice(v) == (v + 2) % Modulus

\* the value self.version += 1 stores, on a Width-bit counter
Increment(v) == (v + 1) % Modulus

\* self.version += 1; returns the new value
\* fault: commit starts the new version with empty indexes
CommitClearsIndexes(g) ==
    [g EXCEPT !.version = Increment(@), !.follows = EmptyMap, !.is_followed = EmptyMap]

commit(g) == [g EXCEPT !.version = Increment(@)]

current_version(g) == g.version

\* fault: the followers of every user, whichever user is asked for
GetFollowersOfAnyone(g, user_id) ==
    UNION {g.is_followed[k] : k \in DOMAIN g.is_followed}

get_followers(g, user_id) == SetAt(g.is_followed, user_id)

get_followees(g, user_id) == SetAt(g.follows, user_id)

(***************************************************************************)
(* The SocialNetwork of lib.rs: the same struct and read methods, with a   *)
(* follow that has no same-version branch and an unfollow that leaves both *)
(* indexes alone.                                                          *)
(***************************************************************************)
\* lib.rs follow: the if-let on the edge's history and the push after it
LibFollowUpdateIntervals(g, follower_id, followee_id) ==
    LET e == <<follower_id, followee_id>>
        fi == g.follow_intervals
    IN  IF e \in DOMAIN fi
        THEN IF Len(fi[e]) = 0
             THEN [g |-> g, ret |-> Panic("Follow intervals should not be empty")]
             ELSE IF Last(fi[e]).follow_end = U64_MAX
             THEN [g |-> g, ret |-> Ok(FALSE)]
             ELSE [g |-> PushInterval(g, e), ret |-> Ok(TRUE)]
        ELSE [g |-> PushInterval(g, e), ret |-> Ok(TRUE)]

\* lib.rs SocialNetwork::follow
lib_follow(g, follower_id, followee_id) ==
    IF follower_id = followee_id
    THEN [g |-> g, ret |-> Err("Users cannot follow themselves")]
    ELSE LibFollowUpdateIntervals(
            FollowAddIsFollowed(FollowAddFollows(g, follower_id, followee_id),
                                follower_id, followee_id),
            follower_id, followee_id)

\* lib.rs SocialNetwork::unfollow: the match on the edge's history
LibUnfollowUpdateIntervals(g, follower_id, followee_id) ==
    LET e == <<follower_id, followee_id>>
        fi == g.follow_intervals
    IN  IF e \notin DOMAIN fi
        THEN [g |-> g, ret |-> Ok(FALSE)]
        ELSE IF Len(fi[e]) = 0
        THEN [g |-> g, ret |-> Ok(FALSE)]
        ELSE IF Last(fi[e]).follow_end = U64_MAX
        THEN [g |-> [g EXCEPT !.follow_intervals[e] = SetLastEnd(@, g.version)],
              ret |-> Ok(TRUE)]
        ELSE [g |-> g, ret |-> Ok(FALSE)]

\* lib.rs SocialNetwork::unfollow
lib_unfollow(g, follower_id, followee_id) ==
    LET early == UnfollowEarlyReturn(g, follower_id, followee_id)
    IN  IF early.kind # "None"
        THEN [g |-> g, ret |-> early]
        ELSE LibUnfollowUpdateIntervals(g, follower_id, followee_id)

\* lib.rs SocialNetwork::follower_count
follower_count(g, user_id) == Cardinality(SetAt(g.is_followed, user_id))

\* lib.rs SocialNetwork::followee_count
followee_count(g, user_id) == Cardinality(SetAt(g.follows, user_id))

(***************************************************************************)
(* Spec: the methods called one at a time on one SocialNetwork, as the     *)
(* unit tests call them.  SpecQuery adds the read methods.                 *)
(***************************************************************************)
Call(op, a, b, version, ret, flag, num, ids) ==
    [op |-> op, follower_id |-> a, followee_id |-> b, version |-> version,
     ret |-> ret, flag |-> flag, num |-> num, ids |-> ids]

NoCall == Call("new", 0, 0, None, NoResult, FALSE, 0, {})

Request(op, a, b, version) ==
    [op |-> op, follower_id |-> a, followee_id |-> b, version |-> version]

NoRequest == Request("none", 0, 0, None)

Response(success, error_message, flag, version, ids) ==
    [success |-> success, error_message |-> error_message, flag |-> flag,
     version |-> version, ids |-> ids]

NoResponse == Response(FALSE, "", FALSE, 0, {})

\* the match on network.follow(..) in SocialNetworkService::follow
FollowResponse(ret) ==
    IF ret.kind = "Ok"
    THEN Response(TRUE, "", ret.val, 0, {})
    ELSE Response(FALSE, ret.msg, FALSE, 0, {})

\* the match on network.unfollow(..) in SocialNetworkService::unfollow
UnfollowResponse(ret) ==
    IF ret.kind = "Ok"
    THEN Response(TRUE, "", ret.val, 0, {})
    ELSE Response(FALSE, ret.msg, FALSE, 0, {})

\* a panic unwinds the caller: nothing is called after it
Running == last.ret.kind # "Panic"

Init ==
    /\ network = NewNetwork
    /\ pre = NewNetwork
    /\ last = NoCall
    /\ mutex = 0
    /\ poisoned = FALSE
    /\ pc = [h \in Handlers |-> "idle"]
    /\ req = [h \in Handlers |-> NoRequest]
    /\ loaded = [h \in Handlers |-> 0]
    /\ resp = [h \in Handlers |-> NoResponse]

Follow(a, b) ==
    /\ Running
    /\ LET r == follow(network, a, b)
       IN  /\ network' = r.g
           /\ last' = Call("follow", a, b, None, r.ret, FALSE, 0, {})
    /\ pre' = network
    /\ UNCHANGED srv_vars

Unfollow(a, b) ==
    /\ Running
    /\ LET r == unfollow(network, a, b)
       IN  /\ network' = r.g
           /\ last' = Call("unfollow", a, b, None, r.ret, FALSE, 0, {})
    /\ pre' = network
    /\ UNCHANGED srv_vars

\* commit, issued while the version is below limit
CommitUpTo(limit) ==
    /\ Running
    /\ network.version < limit
    /\ network' = commit(network)
    /\ last' = Call("commit", 0, 0, None, NoResult, FALSE, commit(network).version, {})
    /\ pre' = network
    /\ UNCHANGED srv_vars

Commit == CommitUpTo(MaxVersion)

CommitQuery == CommitUpTo(MaxQueryVersion)

IsFollowing(a, b, version) ==
    /\ Running
    /\ last' = Call("is_following", a, b, version, NoResult,
                    is_following(network, a, b, version), 0, {})
    /\ pre' = network
    /\ UNCHANGED <<network, srv_vars>>

CurrentVersion ==
    /\ Running
    /\ last' = Call("current_version", 0, 0, None, NoResult, FALSE,
                    current_version(network), {})
    /\ pre' = network
    /\ UNCHANGED <<network, srv_vars>>

GetFollowers(u) ==
    /\ Running
    /\ last' = Call("get_followers", u, 0, None, NoResult, FALSE, 0,
                    get_followers(network, u))
    /\ pre' = network
    /\ UNCHANGED <<network, srv_vars>>

GetFollowees(u) ==
    /\ Running
    /\ last' = Call("get_followees", u, 0, None, NoResult, FALSE, 0,
                    get_followees(network, u))
    /\ pre' = network
    /\ UNCHANGED <<network, srv_vars>>

Next ==
    \/ \E a \in Users, b \in Users : Follow(a, b)
    \/ \E a \in Users, b \in Users : Unfollow(a, b)
    \/ Commit

Spec == Init /\ [][Next]_vars

NextQuery ==
    \/ \E a \in Users, b \in Users : Follow(a, b)
    \/ \E a \in Users, b \in Users : Unfollow(a, b)
    \/ CommitQuery
    \/ \E a \in Users, b \in Users, w \in QueryVersions : IsFollowing(a, b, Some(w))
    \/ \E a \in Users, b \in Users : IsFollowing(a, b, None)
    \/ CurrentVersion
    \/ \E u \in QueryUsers : GetFollowers(u)
    \/ \E u \in QueryUsers : GetFollowees(u)

SpecQuery == Init /\ [][NextQuery]_vars

(***************************************************************************)
(* SpecSentinel: follow, unfollow and commit on one edge, with the version *)
(* counter taken through all of its values up to U64_MAX.                  *)
(***************************************************************************)
CommitToSentinel == CommitUpTo(U64_MAX)

NextSentinel ==
    \/ Follow(1, 2)
    \/ Unfollow(1, 2)
    \/ CommitToSentinel

SpecSentinel == Init /\ [][NextSentinel]_vars

(***************************************************************************)
(* SpecLib: the methods of the lib.rs SocialNetwork called one at a time.  *)
(***************************************************************************)
\* the longest history a follow is issued on
MaxIntervals == 2

LibFollow(a, b) ==
    /\ Running
    /\ <<a, b>> \in DOMAIN network.follow_intervals =>
          Len(network.follow_intervals[<<a, b>>]) < MaxIntervals
    /\ LET r == lib_follow(network, a, b)
       IN  /\ network' = r.g
           /\ last' = Call("follow", a, b, None, r.ret, FALSE, 0, {})
    /\ pre' = network
    /\ UNCHANGED srv_vars

LibUnfollow(a, b) ==
    /\ Running
    /\ LET r == lib_unfollow(network, a, b)
       IN  /\ network' = r.g
           /\ last' = Call("unfollow", a, b, None, r.ret, FALSE, 0, {})
    /\ pre' = network
    /\ UNCHANGED srv_vars

FollowerCount(u) ==
    /\ Running
    /\ last' = Call("follower_count", u, 0, None, NoResult, FALSE,
                    follower_count(network, u), {})
    /\ pre' = network
    /\ UNCHANGED <<network, srv_vars>>

FolloweeCount(u) ==
    /\ Running
    /\ last' = Call("followee_count", u, 0, None, NoResult, FALSE,
                    followee_count(network, u), {})
    /\ pre' = network
    /\ UNCHANGED <<network, srv_vars>>

NextLib ==
    \/ \E a \in Users, b \in Users : LibFollow(a, b)
    \/ \E a \in Users, b \in Users : LibUnfollow(a, b)
    \/ CommitQuery
    \/ \E a \in Users, b \in Users : IsFollowing(a, b, None)
    \/ \E u \in Users : FollowerCount(u)
    \/ \E u \in Users : FolloweeCount(u)

SpecLib == Init /\ [][NextLib]_vars

(***************************************************************************)
(* SpecServer: the RPC handlers of SocialNetworkServer, each serving one   *)
(* request against the one SocialNetwork behind the Mutex.  A handler      *)
(* takes the lock, runs the method statement by statement, builds its      *)
(* response and drops the guard when it returns.                           *)
(***************************************************************************)
ReadOps == {"is_following", "get_followers", "get_followees", "get_current_version"}

\* the versions the IsFollowing requests carry
ServerQueryVersions == {None, Some(0), Some(1)}

ServerRequests ==
    {Request("follow", a, b, None) : a \in Users, b \in Users}
    \cup {Request("unfollow", a, b, None) : a \in Users, b \in Users}
    \cup {Request("commit", 0, 0, None)}
    \cup {Request("is_following", e[1], e[2], v) : e \in Edges, v \in ServerQueryVersions}
    \cup {Request("get_followers", u, 0, None) : u \in Users}
    \cup {Request("get_followees", u, 0, None) : u \in Users}
    \cup {Request("get_current_version", 0, 0, None)}

\* the response of a read handler, built from the graph it reads
ReadResponse(g, r) ==
    IF r.op = "is_following"
    THEN Response(FALSE, "", is_following(g, r.follower_id, r.followee_id, r.version), 0, {})
    ELSE IF r.op = "get_followers"
    THEN Response(FALSE, "", FALSE, 0, get_followers(g, r.follower_id))
    ELSE IF r.op = "get_followees"
    THEN Response(FALSE, "", FALSE, 0, get_followees(g, r.follower_id))
    ELSE Response(FALSE, "", FALSE, current_version(g), {})

\* CommitResponse { version }
CommitResponse(version) == Response(FALSE, "", FALSE, version, {})

\* fault: the handlers do not wait for the lock
MutexIgnored == TRUE

\* self.network.lock() returns once no handler holds the lock
MutexFree == mutex = 0

\* let req = request.into_inner()
Receive(h, r) ==
    /\ pc[h] = "idle"
    /\ req' = [req EXCEPT ![h] = r]
    /\ pc' = [pc EXCEPT ![h] = "lock"]
    /\ UNCHANGED <<lib_vars, mutex, poisoned, loaded, resp>>

\* self.network.lock().unwrap(): a poisoned lock gives Err and unwrap panics
Lock(h) ==
    /\ pc[h] = "lock"
    /\ MutexFree
    /\ IF poisoned
       THEN /\ pc' = [pc EXCEPT ![h] = "panicked"]
            /\ UNCHANGED mutex
       ELSE /\ pc' = [pc EXCEPT ![h] = "call"]
            /\ mutex' = h
    /\ UNCHANGED <<lib_vars, poisoned, req, loaded, resp>>

\* a panic inside the method unwinds through the guard and poisons the lock
Unwind(h) ==
    /\ pc' = [pc EXCEPT ![h] = "panicked"]
    /\ poisoned' = TRUE
    /\ mutex' = 0
    /\ UNCHANGED resp

\* the method returned ret.g and the handler built response r
Return(h, r) ==
    /\ pc' = [pc EXCEPT ![h] = "unlock"]
    /\ resp' = [resp EXCEPT ![h] = r]
    /\ UNCHANGED <<mutex, poisoned>>

\* network.follow: the self check and the insert into follows
FollowStart(h) ==
    /\ pc[h] = "call" /\ req[h].op = "follow"
    /\ IF req[h].follower_id = req[h].followee_id
       THEN /\ Return(h, FollowResponse(Err("Users cannot follow themselves")))
            /\ UNCHANGED network
       ELSE /\ network' = FollowAddFollows(network, req[h].follower_id, req[h].followee_id)
            /\ pc' = [pc EXCEPT ![h] = "add_is_followed"]
            /\ UNCHANGED <<mutex, poisoned, resp>>
    /\ UNCHANGED <<pre, last, req, loaded>>

\* network.follow: the insert into is_followed
FollowIsFollowed(h) ==
    /\ pc[h] = "add_is_followed"
    /\ network' = FollowAddIsFollowed(network, req[h].follower_id, req[h].followee_id)
    /\ pc' = [pc EXCEPT ![h] = "intervals"]
    /\ UNCHANGED <<pre, last, mutex, poisoned, req, loaded, resp>>

\* network.follow: the interval history, and the handler's match on the result
FollowIntervals(h) ==
    /\ pc[h] = "intervals"
    /\ LET r == FollowUpdateIntervals(network, req[h].follower_id, req[h].followee_id)
       IN  /\ network' = r.g
           /\ IF r.ret.kind = "Panic" THEN Unwind(h) ELSE Return(h, FollowResponse(r.ret))
    /\ UNCHANGED <<pre, last, req, loaded>>

\* network.unfollow: the early returns and the remove from follows
UnfollowStart(h) ==
    /\ pc[h] = "call" /\ req[h].op = "unfollow"
    /\ LET early == UnfollowEarlyReturn(network, req[h].follower_id, req[h].followee_id)
       IN  IF early.kind # "None"
           THEN /\ Return(h, UnfollowResponse(early))
                /\ UNCHANGED network
           ELSE /\ network' = UnfollowRemoveFollows(network, req[h].follower_id,
                                                    req[h].followee_id)
                /\ pc' = [pc EXCEPT ![h] = "remove_is_followed"]
                /\ UNCHANGED <<mutex, poisoned, resp>>
    /\ UNCHANGED <<pre, last, req, loaded>>

\* network.unfollow: the remove from is_followed
UnfollowIsFollowed(h) ==
    /\ pc[h] = "remove_is_followed"
    /\ IF UnfollowIsFollowedPresent(network, req[h].followee_id)
       THEN /\ network' = UnfollowRemoveIsFollowed(network, req[h].follower_id,
                                                   req[h].followee_id)
            /\ pc' = [pc EXCEPT ![h] = "close"]
            /\ UNCHANGED <<mutex, poisoned, resp>>
       ELSE /\ Unwind(h)
            /\ UNCHANGED network
    /\ UNCHANGED <<pre, last, req, loaded>>

\* network.unfollow: the interval history, and the handler's match on the result
UnfollowIntervals(h) ==
    /\ pc[h] = "close"
    /\ LET r == UnfollowUpdateIntervals(network, req[h].follower_id, req[h].followee_id)
       IN  /\ network' = r.g
           /\ IF r.ret.kind = "Panic" THEN Unwind(h) ELSE Return(h, UnfollowResponse(r.ret))
    /\ UNCHANGED <<pre, last, req, loaded>>

\* network.commit: self.version += 1 reads the counter ...
CommitLoad(h) ==
    /\ pc[h] = "call" /\ req[h].op = "commit"
    /\ loaded' = [loaded EXCEPT ![h] = network.version]
    /\ pc' = [pc EXCEPT ![h] = "store"]
    /\ UNCHANGED <<lib_vars, mutex, poisoned, req, resp>>

\* ... and writes it back incremented; the new value is the response
CommitStore(h) ==
    /\ pc[h] = "store"
    /\ network' = [network EXCEPT !.version = Increment(loaded[h])]
    /\ Return(h, CommitResponse(Increment(loaded[h])))
    /\ UNCHANGED <<pre, last, req, loaded>>

\* is_following, get_followers, get_followees, current_version under the lock
Read(h) ==
    /\ pc[h] = "call" /\ req[h].op \in ReadOps
    /\ Return(h, ReadResponse(network, req[h]))
    /\ UNCHANGED <<lib_vars, req, loaded>>

\* fault: the handler returns without dropping the MutexGuard
UnlockLeak(h) ==
    /\ pc[h] = "unlock"
    /\ pc' = [pc EXCEPT ![h] = "done"]
    /\ UNCHANGED <<lib_vars, mutex, poisoned, req, loaded, resp>>

\* the handler returns and the MutexGuard is dropped
Unlock(h) ==
    /\ pc[h] = "unlock"
    /\ mutex' = 0
    /\ pc' = [pc EXCEPT ![h] = "done"]
    /\ UNCHANGED <<lib_vars, poisoned, req, loaded, resp>>

NextServer ==
    \/ \E h \in Handlers, r \in ServerRequests : Receive(h, r)
    \/ \E h \in Handlers : Lock(h)
    \/ \E h \in Handlers : FollowStart(h)
    \/ \E h \in Handlers : FollowIsFollowed(h)
    \/ \E h \in Handlers : FollowIntervals(h)
    \/ \E h \in Handlers : UnfollowStart(h)
    \/ \E h \in Handlers : UnfollowIsFollowed(h)
    \/ \E h \in Handlers : UnfollowIntervals(h)
    \/ \E h \in Handlers : CommitLoad(h)
    \/ \E h \in Handlers : CommitStore(h)
    \/ \E h \in Handlers : Read(h)
    \/ \E h \in Handlers : Unlock(h)

SpecServer == Init /\ [][NextServer]_vars

\* the steps of handler h once its request has arrived
HandlerStep(h) ==
    \/ Lock(h)
    \/ FollowStart(h) \/ FollowIsFollowed(h) \/ FollowIntervals(h)
    \/ UnfollowStart(h) \/ UnfollowIsFollowed(h) \/ UnfollowIntervals(h)
    \/ CommitLoad(h) \/ CommitStore(h)
    \/ Read(h)
    \/ Unlock(h)

\* the runtime keeps polling every handler task: a handler that can take a
\* step is not left waiting forever
SpecServerFair == SpecServer /\ \A h \in Handlers : WF_vars(HandlerStep(h))

(***************************************************************************)
(* Vocabulary of the properties.                                           *)
(***************************************************************************)
HasHistory(g, e) == e \in DOMAIN g.follow_intervals
History(g, e) == IF HasHistory(g, e) THEN g.follow_intervals[e] ELSE <<>>
IsOpen(interval) == interval.follow_end = U64_MAX
LastIsOpen(g, e) == Len(History(g, e)) > 0 /\ IsOpen(Last(History(g, e)))
LastClosedAt(g, e, v) ==
    /\ Len(History(g, e)) > 0
    /\ ~IsOpen(Last(History(g, e)))
    /\ Last(History(g, e)).follow_end = v
LastClosedBefore(g, e, v) ==
    /\ Len(History(g, e)) > 0
    /\ ~IsOpen(Last(History(g, e)))
    /\ Last(History(g, e)).follow_end < v
InIndexes(g, u, v) == v \in get_followees(g, u) /\ u \in get_followers(g, v)
InNoIndex(g, u, v) == v \notin get_followees(g, u) /\ u \notin get_followers(g, v)
LastEdge == <<last.follower_id, last.followee_id>>
Called(op) == last.op = op /\ last.follower_id # last.followee_id
CalledSelf(op) == last.op = op /\ last.follower_id = last.followee_id

\* C1: for all users u # v, v is in get_followees(u) iff u is in
\* get_followers(v) iff the last interval of the history of edge (u,v) is
\* OPEN; an edge with no history is in neither index.
C1_IndexMatchesHistory ==
    \A u \in Users, v \in Users :
        u # v =>
            /\ (v \in get_followees(network, u)) <=> (u \in get_followers(network, v))
            /\ (u \in get_followers(network, v)) <=> LastIsOpen(network, <<u, v>>)
            /\ ~HasHistory(network, <<u, v>>) => InNoIndex(network, u, v)

\* an unfollow closed edge (1,2) and took it out of both indexes while edge
\* (2,1) stays open and indexed
C1_Witness ==
    /\ Called("unfollow") /\ LastEdge = <<1, 2>> /\ last.ret = Ok(TRUE)
    /\ HasHistory(network, <<1, 2>>) /\ ~LastIsOpen(network, <<1, 2>>)
    /\ InNoIndex(network, 1, 2)
    /\ LastIsOpen(network, <<2, 1>>) /\ InIndexes(network, 2, 1)

\* C4: within every edge history at most one interval is OPEN, an OPEN
\* interval can only be the last one, and every closed interval has
\* follow_start <= follow_end.
C4_IntervalShape ==
    \A e \in DOMAIN network.follow_intervals :
        LET h == network.follow_intervals[e]
        IN  /\ Cardinality({i \in 1..Len(h) : IsOpen(h[i])}) <= 1
            /\ \A i \in 1..Len(h) :
                /\ IsOpen(h[i]) => i = Len(h)
                /\ ~IsOpen(h[i]) => h[i].follow_start <= h[i].follow_end

\* a history of three intervals, two closed and the last OPEN
C4_Witness ==
    \E e \in DOMAIN network.follow_intervals :
        /\ Len(network.follow_intervals[e]) = 3
        /\ LastIsOpen(network, e)

\* C5: follow(a,a) and unfollow(a,a) return an error and leave the version,
\* all histories and both indexes unchanged; the RPC layer turns the error
\* into success=false, a non-empty error_message and a false flag.
C5_SelfRelationRejected ==
    /\ CalledSelf("follow") =>
        /\ last.ret.kind = "Err"
        /\ network = pre
        /\ ~FollowResponse(last.ret).success
        /\ FollowResponse(last.ret).error_message # ""
        /\ ~FollowResponse(last.ret).flag
    /\ CalledSelf("unfollow") =>
        /\ last.ret.kind = "Err"
        /\ network = pre
        /\ ~UnfollowResponse(last.ret).success
        /\ UnfollowResponse(last.ret).error_message # ""
        /\ ~UnfollowResponse(last.ret).flag

\* follow(1,1) was called on a graph that holds an open edge from user 1
C5_Witness ==
    /\ CalledSelf("follow") /\ last.follower_id = 1
    /\ LastIsOpen(pre, <<1, 2>>)
    /\ pre.version > 0

\* C6: for a # b, right after follow(a,b) returns (true or false)
\* is_following(a,b,None) is true, the last interval of (a,b) is OPEN, b is
\* in get_followees(a) and a is in get_followers(b).
C6_FollowThenFollowing ==
    Called("follow") =>
        /\ last.ret.kind = "Ok"
        /\ is_following(network, last.follower_id, last.followee_id, None)
        /\ LastIsOpen(network, LastEdge)
        /\ last.followee_id \in get_followees(network, last.follower_id)
        /\ last.follower_id \in get_followers(network, last.followee_id)

\* follow returned false on an edge that was closed and out of the indexes
C6_Witness ==
    /\ Called("follow") /\ last.ret = Ok(FALSE)
    /\ ~LastIsOpen(pre, LastEdge)
    /\ InNoIndex(pre, last.follower_id, last.followee_id)

\* C7: follow(a,b) on an edge whose last interval is OPEN returns false and
\* changes nothing; a follow on a never-followed edge returns true, any
\* further follow of that edge before the next commit returns false, and
\* is_following(a,b,None) is true after each of them.
C7_FollowOnOpenIsNoop ==
    /\ (Called("follow") /\ LastIsOpen(pre, LastEdge)) =>
        /\ last.ret = Ok(FALSE)
        /\ network = pre
    /\ (Called("follow") /\ ~HasHistory(pre, LastEdge)) =>
        /\ last.ret = Ok(TRUE)
        /\ is_following(network, last.follower_id, last.followee_id, None)
    /\ (/\ Called("follow")
        /\ Len(History(pre, LastEdge)) = 1
        /\ History(pre, LastEdge)[1].follow_start = pre.version) =>
        /\ last.ret = Ok(FALSE)
        /\ is_following(network, last.follower_id, last.followee_id, None)

\* the second follow of an edge first followed in version 1, still open
C7_Witness ==
    /\ Called("follow") /\ last.ret = Ok(FALSE)
    /\ pre.version = 1
    /\ History(pre, LastEdge) = <<FollowInterval(1)>>
    /\ network = pre

\* C8: follow(a,b) when the edge has no history, or when its last interval
\* was closed at a version strictly below the current one, appends exactly
\* one interval {start: current version, end: OPEN}, leaves the earlier
\* intervals untouched and returns true.
C8_FollowAppends ==
    (/\ Called("follow")
     /\ \/ ~HasHistory(pre, LastEdge)
        \/ LastClosedBefore(pre, LastEdge, pre.version)) =>
        /\ last.ret = Ok(TRUE)
        /\ HasHistory(network, LastEdge)
        /\ network.follow_intervals[LastEdge] =
              Append(History(pre, LastEdge),
                     [follow_start |-> pre.version, follow_end |-> U64_MAX])

\* a refollow after a commit: the edge had a closed interval, and the follow
\* at version 2 appended a second one
C8_Witness ==
    /\ Called("follow") /\ last.ret = Ok(TRUE)
    /\ LastClosedBefore(pre, LastEdge, pre.version)
    /\ pre.version = 2
    /\ Len(network.follow_intervals[LastEdge]) = 2

\* C9: follow(a,b) when the edge's last interval was closed at exactly the
\* current version resets that interval's end to OPEN, appends no interval,
\* re-adds the edge to both indexes and returns false.
C9_FollowReopens ==
    (Called("follow") /\ LastClosedAt(pre, LastEdge, pre.version)) =>
        /\ last.ret = Ok(FALSE)
        /\ network.follow_intervals[LastEdge] =
              SetLastEnd(pre.follow_intervals[LastEdge], U64_MAX)
        /\ Len(network.follow_intervals[LastEdge]) = Len(pre.follow_intervals[LastEdge])
        /\ InNoIndex(pre, last.follower_id, last.followee_id)
        /\ InIndexes(network, last.follower_id, last.followee_id)

\* the reopened interval began at an earlier version than the one it was
\* closed and reopened in
C9_Witness ==
    /\ Called("follow") /\ LastClosedAt(pre, LastEdge, pre.version)
    /\ Last(pre.follow_intervals[LastEdge]).follow_start < pre.version
    /\ LastIsOpen(network, LastEdge)

\* C10: unfollow(a,b) with a # b on an edge that has no OPEN relationship
\* (never followed, or last interval already closed, also when closed in
\* the same version) returns Ok(false) and mutates nothing.
C10_UnfollowNotFollowing ==
    (Called("unfollow") /\ ~LastIsOpen(pre, LastEdge)) =>
        /\ last.ret = Ok(FALSE)
        /\ network = pre

\* unfollow on an edge that was closed earlier in the same version
C10_Witness ==
    /\ Called("unfollow") /\ LastClosedAt(pre, LastEdge, pre.version)
    /\ last.ret = Ok(FALSE)

\* C11: unfollow(a,b) on an edge whose last interval is OPEN sets that
\* interval's end to the current version, removes b from get_followees(a)
\* and a from get_followers(b), changes no other edge, and returns Ok(true).
C11_UnfollowCloses ==
    (Called("unfollow") /\ LastIsOpen(pre, LastEdge)) =>
        /\ last.ret = Ok(TRUE)
        /\ network.version = pre.version
        /\ network.follow_intervals[LastEdge] =
              SetLastEnd(pre.follow_intervals[LastEdge], pre.version)
        /\ last.followee_id \notin get_followees(network, last.follower_id)
        /\ last.follower_id \notin get_followers(network, last.followee_id)
        /\ DOMAIN network.follow_intervals = DOMAIN pre.follow_intervals
        /\ \A e \in Edges :
              e # LastEdge =>
                 /\ History(network, e) = History(pre, e)
                 /\ (e[2] \in get_followees(network, e[1])) <=>
                       (e[2] \in get_followees(pre, e[1]))
                 /\ (e[1] \in get_followers(network, e[2])) <=>
                       (e[1] \in get_followers(pre, e[2]))

\* unfollow(1,2) at version 2 closed an interval opened at version 1 while
\* the opposite edge (2,1) is open and stays open and indexed
C11_Witness ==
    /\ Called("unfollow") /\ LastEdge = <<1, 2>> /\ last.ret = Ok(TRUE)
    /\ pre.version = 2
    /\ Last(network.follow_intervals[<<1, 2>>]) = [follow_start |-> 1, follow_end |-> 2]
    /\ LastIsOpen(pre, <<2, 1>>) /\ LastIsOpen(network, <<2, 1>>)
    /\ InIndexes(network, 2, 1)

\* C12: an unfollow takes effect only at the next version.  After
\* unfollow(a,b) returned true at version v, and until the next commit,
\* is_following(a,b,Some(v)) and is_following(a,b,None) are true; after
\* that commit, as long as no follow(a,b) was issued since the unfollow,
\* is_following(a,b,Some(v+1)) and is_following(a,b,None) are false.
\* (The last interval of (a,b) is closed at the current version exactly
\* from such an unfollow to the next commit or follow(a,b), and closed at
\* an earlier version from that commit to the next follow(a,b).)
C12_UnfollowAtNextVersion ==
    /\ (Called("unfollow") /\ last.ret = Ok(TRUE)) =>
          LastClosedAt(network, LastEdge, network.version)
    /\ (/\ last.op = "is_following"
        /\ LastClosedAt(network, LastEdge, network.version)
        /\ last.version \in {None, Some(network.version)}) =>
          last.flag
    /\ (last.op = "commit") =>
          \A e \in Edges :
             LastClosedAt(pre, e, pre.version) =>
                LastClosedBefore(network, e, network.version)
    /\ (/\ last.op = "is_following"
        /\ LastClosedBefore(network, LastEdge, network.version)
        /\ last.version \in {None, Some(Last(History(network, LastEdge)).follow_end + 1)}) =>
          ~last.flag

\* is_following(1,2,None) answered true at version 1 although the edge
\* was unfollowed in that version
C12_Witness ==
    /\ last.op = "is_following" /\ LastEdge = <<1, 2>> /\ last.version = None
    /\ network.version = 1
    /\ LastClosedAt(network, <<1, 2>>, 1)
    /\ last.flag

\* C13: for distinct users a, b from an empty graph: follow(a,b) returns
\* true, commit returns 1, unfollow(a,b) returns true, commit returns 2,
\* follow(a,b) returns true, commit returns 3; then is_following(a,b,.) is
\* true at Some(0), true at Some(1), false at Some(2), true at Some(3).
\* (The refollow pushes [2, OPEN], which is_active at 2: the code answers
\* true at Some(2), so this statement does not hold of the code.)
C13_EndToEnd ==
    \A a \in Users, b \in Users :
        a # b =>
            LET g1 == follow(NewNetwork, a, b).g
                g2 == commit(g1)
                g3 == unfollow(g2, a, b).g
                g4 == commit(g3)
                g5 == follow(g4, a, b).g
            IN  /\ (Called("follow") /\ LastEdge = <<a, b>> /\ pre = NewNetwork) =>
                      last.ret = Ok(TRUE)
                /\ (last.op = "commit" /\ pre = g1) => last.num = 1
                /\ (Called("unfollow") /\ LastEdge = <<a, b>> /\ pre = g2) =>
                      last.ret = Ok(TRUE)
                /\ (last.op = "commit" /\ pre = g3) => last.num = 2
                /\ (Called("follow") /\ LastEdge = <<a, b>> /\ pre = g4) =>
                      last.ret = Ok(TRUE)
                /\ (last.op = "commit" /\ pre = g5) =>
                      /\ last.num = 3
                      /\ is_following(network, a, b, Some(0))
                      /\ is_following(network, a, b, Some(1))
                      /\ ~is_following(network, a, b, Some(2))
                      /\ is_following(network, a, b, Some(3))

\* the state after the sixth call of the scenario for a = 1, b = 2
C13_Witness ==
    /\ last.op = "commit" /\ last.num = 3
    /\ DOMAIN network.follow_intervals = {<<1, 2>>}
    /\ network.follow_intervals[<<1, 2>>] =
          <<[follow_start |-> 0, follow_end |-> 1], FollowInterval(2)>>
    /\ pre = follow(commit(unfollow(commit(follow(NewNetwork, 1, 2).g), 1, 2).g), 1, 2).g

\* C14: is_following(a,b,Some(w)) returns false for every w strictly
\* greater than current_version(), whatever the edge's history.
C14_FutureVersionIsFalse ==
    (/\ last.op = "is_following"
     /\ last.version.is_some
     /\ last.version.value > current_version(network)) =>
        ~last.flag

\* a query one version ahead on an edge whose last interval is OPEN
C14_Witness ==
    /\ last.op = "is_following" /\ LastEdge = <<1, 2>>
    /\ last.version = Some(network.version + 1)
    /\ LastIsOpen(network, <<1, 2>>)
    /\ ~last.flag

\* start <= w <= end, with OPEN as +infinity
Covers(interval, w) ==
    /\ interval.follow_start <= w
    /\ (IsOpen(interval) \/ w <= interval.follow_end)

\* C15: for w <= current_version(), is_following(a,b,Some(w)) is true iff
\* some interval of the history of (a,b) has start <= w <= end with OPEN as
\* +infinity; is_following(a,b,None) equals
\* is_following(a,b,Some(current_version())).
C15_IsFollowingMeaning ==
    last.op = "is_following" =>
        LET w == IF last.version.is_some THEN last.version.value ELSE network.version
            h == History(network, LastEdge)
        IN  w <= network.version =>
                (last.flag <=> \E i \in 1..Len(h) : Covers(h[i], w))

\* a query at version 0 answered by the first of two intervals, the last
\* one starting later
C15_Witness ==
    /\ last.op = "is_following" /\ last.version = Some(0) /\ last.flag
    /\ Len(History(network, LastEdge)) = 2
    /\ History(network, LastEdge)[1].follow_end = 0
    /\ History(network, LastEdge)[2].follow_start = 2

\* C16: the version starts at 0; commit increases it by exactly 1 and
\* returns the new value; no other operation changes it, so it never
\* decreases.
C16_VersionOnlyByCommit ==
    /\ last.op = "new" => network.version = 0
    /\ last.op = "commit" =>
          (network.version = pre.version + 1 /\ last.num = network.version)
    /\ last.op \notin {"new", "commit"} => network.version = pre.version
    /\ last.op = "current_version" => last.num = network.version
    /\ network.version >= pre.version

\* the second commit returned 2
C16_Witness ==
    /\ last.op = "commit" /\ pre.version = 1 /\ last.num = 2
    /\ network.follow_intervals # EmptyMap

(***************************************************************************)
(* The handlers, one after the other: what a sequential execution of the   *)
(* requests gives.                                                         *)
(***************************************************************************)
\* one request served alone on graph g: the graph after it and the response
Serve(g, r) ==
    IF r.op = "follow"
    THEN LET x == follow(g, r.follower_id, r.followee_id)
         IN  [g |-> x.g, resp |-> FollowResponse(x.ret)]
    ELSE IF r.op = "unfollow"
    THEN LET x == unfollow(g, r.follower_id, r.followee_id)
         IN  [g |-> x.g, resp |-> UnfollowResponse(x.ret)]
    ELSE IF r.op = "commit"
    THEN [g |-> commit(g), resp |-> CommitResponse(commit(g).version)]
    ELSE [g |-> g, resp |-> ReadResponse(g, r)]

\* the orders in which the handlers of D can run one after the other
Orders(D) ==
    {o \in [1..Cardinality(D) -> D] : \A i, j \in DOMAIN o : i # j => o[i] # o[j]}

\* the graph after the first n handlers of order o ran alone, from a new network
RECURSIVE GraphAfter(_, _)
GraphAfter(o, n) ==
    IF n = 0 THEN NewNetwork ELSE Serve(GraphAfter(o, n - 1), req[o[n]]).g

Finished == {h \in Handlers : pc[h] = "done"}
InFlight == {h \in Handlers : pc[h] \notin {"idle", "lock", "done"}}
MidMutation ==
    {h \in Handlers :
        pc[h] \in {"add_is_followed", "intervals", "remove_is_followed", "close", "store"}}
AtRead == {h \in Handlers : pc[h] = "call" /\ req[h].op \in ReadOps}

IndexMatchesHistory(g) ==
    \A u \in Users, v \in Users :
        u # v =>
            /\ (v \in get_followees(g, u)) <=> (u \in get_followers(g, v))
            /\ (u \in get_followers(g, v)) <=> LastIsOpen(g, <<u, v>>)

\* C2: whenever no handler is part-way through its call, the graph (version,
\* every edge history, both indexes) and the response of every finished
\* handler are those of the finished handlers' requests run one after the
\* other in some order from a new network.
C2_Serializable ==
    InFlight = {} =>
        \E o \in Orders(Finished) :
            /\ GraphAfter(o, Cardinality(Finished)) = network
            /\ \A n \in DOMAIN o :
                  resp[o[n]] = Serve(GraphAfter(o, n - 1), req[o[n]]).resp

\* a Follow, an Unfollow of the same edge and nothing else: both finished,
\* the Unfollow closed the edge the Follow opened
C2_Witness ==
    /\ Finished = Handlers
    /\ \E h1 \in Handlers, h2 \in Handlers :
        /\ req[h1] = Request("follow", 1, 2, None)
        /\ req[h2] = Request("unfollow", 1, 2, None)
        /\ resp[h1].flag /\ resp[h2].flag
    /\ HasHistory(network, <<1, 2>>) /\ ~LastIsOpen(network, <<1, 2>>)

\* C3: a handler that reads the graph (IsFollowing, GetFollowers,
\* GetFollowees, GetCurrentVersion) reads it only while no follow, unfollow
\* or commit is part-way through, and the graph it reads has its indexes and
\* histories in step; while a mutation is part-way through no handler is at
\* its read.
C3_NoTornRead ==
    /\ AtRead # {} => (MidMutation = {} /\ IndexMatchesHistory(network))
    /\ MidMutation # {} => AtRead = {}

\* a follow has updated both indexes and not yet the history (the graph is
\* torn) while a GetFollowers handler waits for the lock
C3_Witness ==
    \E h1 \in Handlers, h2 \in Handlers :
        /\ pc[h1] = "intervals"
        /\ ~IndexMatchesHistory(network)
        /\ pc[h2] = "lock" /\ req[h2].op = "get_followers"

\* the Commit handlers whose response is built
CommitReturned == {h \in Handlers : req[h].op = "commit" /\ pc[h] \in {"unlock", "done"}}

\* C17: concurrent commits are not lost or duplicated.  The n Commit
\* handlers that have returned, issued from version k = 0 of the new network
\* and interleaved with any other handlers, returned exactly the values
\* k+1 .. k+n, each once, and the version is k+n.
C17_CommitsNotLost ==
    /\ {resp[h].version : h \in CommitReturned} = 1..Cardinality(CommitReturned)
    /\ \A h1 \in CommitReturned, h2 \in CommitReturned :
          h1 # h2 => resp[h1].version # resp[h2].version
    /\ network.version = Cardinality(CommitReturned)

\* every handler served a Commit and all have finished
C17_Witness ==
    /\ Finished = Handlers
    /\ \A h \in Handlers : req[h].op = "commit"
    /\ network.version = NumHandlers

\* the handler positions between lock() returning and the guard's drop
HoldsGuard ==
    {h \in Handlers :
        pc[h] \in {"call", "add_is_followed", "intervals", "remove_is_followed",
                   "close", "store", "unlock"}}

\* C18: the lock is released on every exit path of every handler, the
\* error returns of follow and unfollow included: the lock is never held
\* unless the handler that took it is still running, and under fair
\* scheduling every request that has arrived acquires the lock and completes.
C18_LockReleased ==
    /\ [](mutex # 0 => mutex \in HoldsGuard)
    /\ \A h \in Handlers : (pc[h] = "lock") ~> (pc[h] = "done")

\* a Follow of oneself has returned its error and finished; another handler
\* holds the lock after it
C18_Witness ==
    \E h1 \in Handlers, h2 \in Handlers :
        /\ pc[h1] = "done" /\ req[h1].op \in {"follow", "unfollow"}
        /\ ~resp[h1].success /\ resp[h1].error_message # ""
        /\ mutex = h2 /\ h2 # h1

\* C19: for a # b, in every reachable state, follow(a,b) and unfollow(a,b)
\* return Ok: no sequence of follow, unfollow and commit calls makes
\* unfollow return the "Invalid follow interval" error.
C19_AlwaysOk ==
    (Called("follow") \/ Called("unfollow")) =>
        /\ last.ret.kind = "Ok"
        /\ last.ret # Err("Invalid follow interval")

\* an unfollow of an edge whose last interval was closed in an earlier
\* version: the call returns Ok(false) before it looks at the history
C19_Witness ==
    /\ Called("unfollow")
    /\ LastClosedBefore(pre, LastEdge, pre.version)
    /\ last.ret = Ok(FALSE)

\* C20: no self-edge is ever recorded.  After any sequence of calls, the
\* rejected follow(a,a) and unfollow(a,a) included, no edge (a,a) has a
\* history, get_followers(u) does not contain u and get_followees(u) does
\* not contain u.
C20_NoSelfEdge ==
    \A u \in Users :
        /\ ~HasHistory(network, <<u, u>>)
        /\ u \notin get_followers(network, u)
        /\ u \notin get_followees(network, u)

\* follow(1,1) was just rejected while user 1 follows and is followed
C20_Witness ==
    /\ CalledSelf("follow") /\ last.follower_id = 1
    /\ last.ret.kind = "Err"
    /\ get_followers(network, 1) = {2}
    /\ get_followees(network, 1) = {2}

\* user u is on neither side of any edge that has a history
InNoRecordedEdge(g, u) ==
    \A e \in DOMAIN g.follow_intervals : e[1] # u /\ e[2] # u

\* C21: a user that appears in no recorded edge gets empty results from
\* get_followers and get_followees, and an edge that was never followed
\* gets false from is_following at every version, past, current or future.
C21_UnknownIsEmpty ==
    /\ (last.op = "get_followers" /\ InNoRecordedEdge(network, last.follower_id)) =>
          last.ids = {}
    /\ (last.op = "get_followees" /\ InNoRecordedEdge(network, last.follower_id)) =>
          last.ids = {}
    /\ (last.op = "is_following" /\ ~HasHistory(network, LastEdge)) => ~last.flag

\* get_followers of the id that never acted, asked while 1 follows 2
C21_Witness ==
    /\ last.op = "get_followers" /\ last.follower_id = 3
    /\ LastIsOpen(network, <<1, 2>>)
    /\ last.ids = {}


\* history o of an edge grew into history n: nothing removed, no start
\* changed, nothing but the end of o's last interval changed
GrewFrom(o, n) ==
    /\ Len(n) >= Len(o)
    /\ \A i \in 1..Len(o) :
          /\ n[i].follow_start = o[i].follow_start
          /\ i < Len(o) => n[i] = o[i]

\* C22: history is append-only.  Across every call, every interval of every
\* edge stays in place with its start; only the end of the last interval of
\* an edge changes, and no history gets shorter or disappears.
C22_AppendOnly ==
    \A e \in DOMAIN pre.follow_intervals :
        /\ HasHistory(network, e)
        /\ GrewFrom(pre.follow_intervals[e], network.follow_intervals[e])

\* a follow in a later version appended a second interval to a closed one
C22_Witness ==
    /\ Called("follow") /\ last.ret = Ok(TRUE)
    /\ Len(History(pre, LastEdge)) = 1
    /\ Len(History(network, LastEdge)) = 2
    /\ History(network, LastEdge)[1] = History(pre, LastEdge)[1]

\* the intervals of history h that are active at version w
ActiveAt(h, w) == {i \in 1..Len(h) : is_active(h[i], w)}

\* C23: within each edge history the intervals are in strictly increasing
\* version order and do not overlap: of two consecutive intervals p, q the
\* first is closed and p.end < q.start, so at any version at most one
\* interval of an edge is active.
C23_StrictlyOrdered ==
    \A e \in DOMAIN network.follow_intervals :
        LET h == network.follow_intervals[e]
        IN  /\ \A i \in 1..(Len(h) - 1) :
                  /\ ~IsOpen(h[i])
                  /\ h[i].follow_end < h[i + 1].follow_start
            /\ \A w \in 0..U64_MAX : Cardinality(ActiveAt(h, w)) <= 1

\* an edge closed in one version and followed again in the next
C23_Witness ==
    \E e \in DOMAIN network.follow_intervals :
        LET h == network.follow_intervals[e]
        IN  /\ Len(h) = 2
            /\ h[2].follow_start = h[1].follow_end + 1
            /\ IsOpen(h[2])

\* C30: no interval boundary lies in the future: every interval's start is
\* at most the current version and every closed interval's end is at most
\* the current version.
C30_NoFutureBoundary ==
    \A e \in DOMAIN network.follow_intervals :
        \A i \in 1..Len(network.follow_intervals[e]) :
            LET p == network.follow_intervals[e][i]
            IN  /\ p.follow_start <= network.version
                /\ ~IsOpen(p) => p.follow_end <= network.version

\* an unfollow in version 2 has just closed an interval that began there
C30_Witness ==
    /\ Called("unfollow") /\ last.ret = Ok(TRUE)
    /\ network.version = 2
    /\ Last(History(network, LastEdge)) = [follow_start |-> 2, follow_end |-> 2]


\* C24: the read operations are pure and commit touches only the counter:
\* is_following, get_followers, get_followees and current_version leave
\* version, histories and indexes unchanged; commit leaves every edge
\* history and both indexes unchanged.
C24_ReadsArePure ==
    /\ last.op \in {"is_following", "get_followers", "get_followees", "current_version"} =>
          network = pre
    /\ last.op = "commit" =>
          /\ network.follow_intervals = pre.follow_intervals
          /\ network.follows = pre.follows
          /\ network.is_followed = pre.is_followed

\* a commit on a graph with an open edge and a closed one
C24_Witness ==
    /\ last.op = "commit"
    /\ LastIsOpen(network, <<1, 2>>)
    /\ HasHistory(network, <<2, 1>>) /\ ~LastIsOpen(network, <<2, 1>>)
    /\ get_followers(network, 2) = {1}

\* C25: within one version an unfollow followed by a follow is a round
\* trip.  On an edge whose last interval is OPEN, unfollow and then follow
\* with no commit in between give back the graph as it was before the
\* unfollow: same version, same intervals of every edge, same indexes.
C25_CollapseRoundTrip ==
    (Called("unfollow") /\ LastIsOpen(pre, LastEdge)) =>
        LET r == follow(network, last.follower_id, last.followee_id)
        IN  /\ r.g = pre
            /\ r.ret = Ok(FALSE)

\* the follow after such an unfollow has run: the edge has its one interval
\* open again and is back in both indexes
C25_Witness ==
    /\ Called("follow") /\ last.ret = Ok(FALSE)
    /\ LastClosedAt(pre, LastEdge, pre.version)
    /\ unfollow(network, last.follower_id, last.followee_id).g = pre
    /\ LastIsOpen(network, LastEdge)
    /\ InIndexes(network, last.follower_id, last.followee_id)

\* C26: unfollow(a,b) on an edge whose last interval's end already equals
\* the current version (a second unfollow within the same uncommitted
\* version) reopens the interval back to OPEN.
\* (The code returns Ok(false) at the check of the follows set and never
\* reaches its reopening arm, so this statement does not hold of the code.)
C26_SecondUnfollowReopens ==
    (Called("unfollow") /\ LastClosedAt(pre, LastEdge, pre.version)) =>
        LastIsOpen(network, LastEdge)

\* the second unfollow within a version has run
C26_Witness ==
    /\ Called("unfollow")
    /\ LastClosedAt(pre, LastEdge, pre.version)
    /\ last.ret = Ok(FALSE)
    /\ network = pre


\* the lib.rs graph after follow(1,2) and unfollow(1,2) on a new network
LibFollowedUnfollowed == lib_unfollow(lib_follow(NewNetwork, 1, 2).g, 1, 2).g

\* C28: in the lib.rs SocialNetwork an unfollow takes effect at once on the
\* current view: after follow(1,2) and unfollow(1,2) with no commit in
\* between, is_following(1,2,None) is false, follower_count(2) is 0 and
\* followee_count(1) is 0.
\* (The unfollow closes the interval at the current version, which the
\* interval still covers, and leaves both index sets alone, so this
\* statement does not hold of the code.)
C28_LibUnfollowImmediate ==
    pre = LibFollowedUnfollowed =>
        /\ (last.op = "is_following" /\ LastEdge = <<1, 2>> /\ last.version = None) =>
              ~last.flag
        /\ (last.op = "follower_count" /\ last.follower_id = 2) => last.num = 0
        /\ (last.op = "followee_count" /\ last.follower_id = 1) => last.num = 0

\* follower_count(2) asked right after follow(1,2), unfollow(1,2)
C28_Witness ==
    /\ pre = LibFollowedUnfollowed
    /\ network = pre
    /\ network.version = 0
    /\ last.op = "follower_count" /\ last.follower_id = 2
    /\ last.num = 1


\* C27: the OPEN marker never collides with a real version.  For every
\* value the version counter takes (a Width-bit counter, OPEN = 2^Width - 1)
\* an interval closed by unfollow at that version is told apart from an
\* OPEN one: a successful unfollow leaves the edge's last interval closed
\* and the indexes in step with the histories.
\* (At version U64_MAX the end written by unfollow is the OPEN marker
\* itself, so this statement does not hold of the code.)
C27_SentinelNeverCollides ==
    (Called("unfollow") /\ last.ret = Ok(TRUE)) =>
        /\ ~LastIsOpen(network, LastEdge)
        /\ IndexMatchesHistory(network)

\* an unfollow at version U64_MAX returned Ok(true): the edge is out of both
\* indexes and its last interval still reads as OPEN
C27_Witness ==
    /\ Called("unfollow") /\ last.ret = Ok(TRUE)
    /\ network.version = U64_MAX
    /\ InNoIndex(network, 1, 2)
    /\ LastIsOpen(network, <<1, 2>>)


\* is_following(a,b,Some(w)) on graph g
Answer(g, e, w) == is_following(g, e[1], e[2], Some(w))

\* C29: sealed history is immutable.  For every edge and every version w
\* strictly below the current version, no follow, unfollow or commit changes
\* the answer of is_following(a,b,Some(w)); the answer at the current,
\* uncommitted version can still change, and only from false to true.
C29_SealedIsImmutable ==
    \A e \in Edges :
        /\ \A w \in 0..MaxVersion :
              w < pre.version => Answer(network, e, w) = Answer(pre, e, w)
        /\ Answer(pre, e, pre.version) => Answer(network, e, pre.version)

\* a follow in version 2 turned the answer at version 2 from false to true
\* and left the answers at the sealed versions 0 and 1 as they were
C29_Witness ==
    /\ Called("follow") /\ last.ret = Ok(TRUE)
    /\ pre.version = 2
    /\ ~Answer(pre, LastEdge, 2) /\ Answer(network, LastEdge, 2)
    /\ Answer(pre, LastEdge, 1) /\ Answer(network, LastEdge, 1)
    /\ Answer(pre, LastEdge, 0) /\ Answer(network, LastEdge, 0)


\* C31: a follow undone inside the same version still leaves a trace.  For
\* a never-followed edge (a,b), follow(a,b) then unfollow(a,b) at version v
\* with no commit in between leaves the one closed interval [v,v] and takes
\* the edge out of both indexes, yet is_following(a,b,Some(v)) is true then,
\* and every answer that is true at a version up to the current one stays
\* true after every later call: follow then unfollow is not a round trip.
C31_FollowUnfollowLeavesTrace ==
    /\ (/\ Called("unfollow")
        /\ History(pre, LastEdge) = <<FollowInterval(pre.version)>>) =>
          /\ last.ret = Ok(TRUE)
          /\ History(network, LastEdge) =
                <<[follow_start |-> pre.version, follow_end |-> pre.version]>>
          /\ InNoIndex(network, last.follower_id, last.followee_id)
          /\ Answer(network, LastEdge, pre.version)
    /\ \A e \in Edges, w \in 0..MaxVersion :
          (w <= pre.version /\ Answer(pre, e, w)) => Answer(network, e, w)

\* follow(1,2) and unfollow(1,2) both ran in version 1 and a commit later
\* the edge is in no index while is_following(1,2,Some(1)) is still true
C31_Witness ==
    /\ last.op = "commit" /\ network.version = 2
    /\ History(network, <<1, 2>>) = <<[follow_start |-> 1, follow_end |-> 1]>>
    /\ InNoIndex(network, 1, 2)
    /\ Answer(network, <<1, 2>>, 1)
    /\ ~Answer(network, <<1, 2>>, 2)

\* C32: every edge history that exists in follow_intervals holds at least
\* one interval, so the expect in follow and the assert in unfollow never
\* fire; no handler panics while it holds the server mutex and no
\* lock().unwrap() meets a poisoned lock.
C32_NoPanicNoPoison ==
    /\ \A e \in DOMAIN network.follow_intervals : Len(network.follow_intervals[e]) >= 1
    /\ ~poisoned
    /\ \A h \in Handlers : pc[h] # "panicked"

\* two Follow handlers of the same edge have finished: the second one found
\* the edge's history, took its last interval and answered already following
C32_Witness ==
    /\ Finished = Handlers
    /\ \A h \in Handlers : req[h] = Request("follow", 1, 2, None) /\ resp[h].success
    /\ \E h \in Handlers : ~resp[h].flag
    /\ Len(History(network, <<1, 2>>)) = 1
    /\ ~poisoned

=============================================================================
